---- MODULE Spec2Model ----
(***************************************************************************)
(* Model of one SheerIDVerifier session (src/sheerid_verifier.py): the     *)
(* verify() run as a state machine whose steps are the blocking remote     *)
(* calls.  Each action is "the pending call returns; verify() runs on to   *)
(* its next remote call or to its return".                                 *)
(*                                                                         *)
(* Python values: a dict is a function whose domain is the set of keys     *)
(* present; a str is a string, or a sequence of string tokens where the    *)
(* code builds it by formatting; None is NoneStr (for str-valued places)   *)
(* or NoneDict (for dict-valued places).                                   *)
(***************************************************************************)
EXTENDS Integers, Sequences, FiniteSets, TLC

\* ------------------------------------------------------------ bounds
\* longest errorIds list a reply may carry
MaxErrorIds == 2
\* longest documents list a reply may carry
MaxDocuments == 2

\* ------------------------------------------------------------ Python values
NoneStr == "<None>"
NoneDict == [py_none |-> TRUE]
EmptyDict == [k \in {} |-> TRUE]

IsNoneDict(d) == DOMAIN d = {"py_none"}

\* dict.get(key, default)
Get(d, key, default) == IF key \in DOMAIN d THEN d[key] ELSE default

\* truth value of a str-or-None
TruthyStr(s) == s # NoneStr /\ s # ""

\* truth value of a dict-or-None
TruthyDict(d) == ~IsNoneDict(d) /\ DOMAIN d # {}

\* sequences over S of length 0..n
SeqUpTo(S, n) == UNION {[1..k -> S] : k \in 0..n}

\* sep.join(items), as a sequence of string tokens
RECURSIVE Join(_, _)
Range(seq) == {seq[i] : i \in 1..Len(seq)}

Join(items, sep) ==
    IF Len(items) = 0 THEN <<>>
    ELSE IF Len(items) = 1 THEN <<items[1]>>
    ELSE <<items[1], sep>> \o Join(Tail(items), sep)

\* ------------------------------------------------------------ configuration
SHEERID_BASE_URL == "https://services.sheerid.com"
PROGRAM_ID == "<program-id>"

\* config.SCHOOLS: the static organization catalog
SCHOOLS ==
    ("mit" :> [id |-> 1953, idExtended |-> "1953", name |-> "MIT", domain |-> "mit.edu"])
    @@ ("psu" :> [id |-> 2565, idExtended |-> "2565-ext", name |-> "Penn State", domain |-> "psu.edu"])

\* str.upper() on the domains that occur
Upper(s) ==
    CASE s = "mit.edu" -> "MIT.EDU"
      [] s = "psu.edu" -> "PSU.EDU"
      [] s = "university.edu" -> "UNIVERSITY.EDU"
      [] s = "ucla.edu" -> "UCLA.EDU"
      [] OTHER -> s

\* ------------------------------------------------------------ remote replies
(* What one remote call can come back with: response.json() gave a JSON     *)
(* object ("object"), response.json() failed and response.text is returned  *)
(* ("text"), or the HTTP client raised ("raise").                           *)
ObjectReply(status, d) == [kind |-> "object", status |-> status, json |-> d, text |-> ""]
TextReply(status) == [kind |-> "text", status |-> status, json |-> EmptyDict, text |-> "<html>Bad Gateway</html>"]
RaiseReply == [kind |-> "raise", status |-> 0, json |-> EmptyDict, text |-> "<connection error>"]

CollectStatuses == {200, 201, 404, 500}
JsonStatuses == {200, 500}
PutStatuses == {199, 200, 204, 299, 300, 404, 500}

ErrorCodes == {"INVALID_EMAIL", "EXPIRED"}

CollectDicts ==
    {EmptyDict}
    \cup {("currentStep" :> s) : s \in {"sso", "collectStudentPersonalInfo", "docUpload", "success", "error"}}
    \cup {("currentStep" :> "error") @@ ("errorIds" :> ids) : ids \in SeqUpTo(ErrorCodes, MaxErrorIds)}

SsoDicts ==
    {EmptyDict} \cup {("currentStep" :> s) : s \in {"docUpload", "sso", "error"}}

Descriptors == {("uploadUrl" :> "https://s3.example/upload-1"), ("documentId" :> "doc-2")}

DocUploadDicts ==
    {EmptyDict} \cup {("documents" :> docs) : docs \in SeqUpTo(Descriptors, MaxDocuments)}

CompleteDicts ==
    {EmptyDict}
    \cup {("currentStep" :> s) : s \in {"pending", "error"}}
    \cup {("redirectUrl" :> "https://redirect.example/done")}
    \cup {("currentStep" :> s) @@ ("redirectUrl" :> "https://redirect.example/done") : s \in {"pending", "error"}}

JsonReplies(statuses, dicts) ==
    {RaiseReply}
    \cup {TextReply(st) : st \in statuses}
    \cup {ObjectReply(st, d) : st \in statuses, d \in dicts}

CollectReplies == JsonReplies(CollectStatuses, CollectDicts)
SsoReplies == JsonReplies(JsonStatuses, SsoDicts)
DocUploadReplies == JsonReplies(JsonStatuses, DocUploadDicts)
CompleteReplies == JsonReplies(JsonStatuses, CompleteDicts)
PutReplies == {RaiseReply} \cup {TextReply(st) : st \in PutStatuses}

\* ------------------------------------------------------------ inputs of verify
SuppliedIdentity ==
    [first_name |-> "John", last_name |-> "Doe", email |-> <<"john.doe@example.org">>, birth_date |-> "2001-02-03"]
NoIdentity ==
    [first_name |-> NoneStr, last_name |-> NoneStr, email |-> <<>>, birth_date |-> NoneStr]

\* the (first_name, last_name, email, birth_date) arguments; a missing email is <<>>
IdentityInputs ==
    { SuppliedIdentity,
      NoIdentity,
      [SuppliedIdentity EXCEPT !.email = <<>>],
      [NoIdentity EXCEPT !.first_name = "John"] }

PresetSchoolData ==
    [dict_key |-> "mit", id |-> 1953, idExtended |-> "1953", name |-> "MIT",
     domain |-> "mit.edu", from_search |-> FALSE]
SearchSchoolData ==
    ("dict_key" :> NoneStr) @@ ("id" :> 3499) @@ ("idExtended" :> "3499")
    @@ ("name" :> "UCLA") @@ ("from_search" :> TRUE)
ExplicitSchoolData ==
    [id |-> 2565, idExtended |-> "2565-ext", name |-> "Penn State", domain |-> "psu.edu"]
UnknownKeySchoolData ==
    [dict_key |-> "nowhere", id |-> 1, idExtended |-> "1", name |-> "Nowhere",
     domain |-> "nowhere.edu", from_search |-> FALSE]

\* the school_data argument
SchoolInputs ==
    {NoneDict, EmptyDict, PresetSchoolData, SearchSchoolData, ExplicitSchoolData, UnknownKeySchoolData}

\* NameGenerator.generate(), generate_birth_date(), the random local part of
\* generate_school_email, generate_image: one sample of each random result
GeneratedNames == {[first_name |-> "Emma", last_name |-> "Stone"]}
GeneratedBirthDates == {"2003-07-15"}
\* username = ''.join(random.choice(chars) for _ in range(8)); draws[i] is the i-th choice
LocalPartChars ==
    <<"A", "B", "C", "D", "E", "F", "G", "H", "I", "J", "K", "L", "M", "N", "O", "P", "Q", "R",
      "S", "T", "U", "V", "W", "X", "Y", "Z", "0", "1", "2", "3", "4", "5", "6", "7", "8", "9">>
LocalPartLength == 8
generate_username(draws) == [i \in 1..LocalPartLength |-> LocalPartChars[draws[i]]]
GeneratedLocalParts ==
    {generate_username(<<1, 29, 2, 31, 3, 33, 4, 35>>),
     generate_username([i \in 1..LocalPartLength |-> ((7 * i) % Len(LocalPartChars)) + 1])}
RenderResults == {[raised |-> FALSE, img_data |-> <<137, 80, 78, 71>>],
                  [raised |-> FALSE, img_data |-> <<137, 80, 78, 71, 13, 10>>],
                  [raised |-> TRUE, img_data |-> <<>>]}

\* ------------------------------------------------------------ state
VARIABLES
    verification_id,     \* self.verification_id
    device_fingerprint,  \* self.device_fingerprint
    pc,                  \* where verify() is: "idle", the remote call it waits in, "done"
    args,                \* the arguments verify() was called with
    first_name, last_name, email, birth_date,   \* the locals after generation
    school,              \* the resolved organization
    img_data, file_size, \* the rendered document and its length
    current_step,
    upload_url,
    calls,               \* the remote requests issued so far, in order
    replies,             \* what each of them came back with, in order
    result,              \* the dict verify() returned
    renders,             \* the generate_image invocations of the run, in order
    http_client,         \* self.http_client: "open" or "closed"
    catalog,             \* config.SCHOOLS, the one object every session shares
    parked,              \* the state of the other session while this one runs
    given_url, parsed,         \* a URL given to parse_verification_id, and what it returned
    conv,                \* the state of the user's conversation with the bot
    user_data,           \* context.user_data
    screen,              \* the inline keyboards the chat shows
    handled,             \* the last update and the handler that took it
    running              \* a handler is inside start_verification

session == <<verification_id, device_fingerprint>>
identity == <<first_name, last_name, email, birth_date>>
locals == <<identity, school, img_data, file_size>>
front == <<given_url, parsed>>
dialogue == <<conv, user_data, screen, handled, running>>
\* what no step of verify touches
beyond == <<http_client, parked, front, dialogue>>
vars == <<session, pc, args, locals, current_step, upload_url, calls, replies, result,
          renders, catalog, beyond>>

\* verify has not returned
NoResult == NoneDict

\* an inline keyboard: its kind and, for search results, the schools its buttons show
NoKeyboard == [kind |-> "none", schools |-> <<>>]

\* no update has arrived
NoSearchReply == [kind |-> "none", status |-> 0, results |-> <<>>]
NoUpdate ==
    [update |-> "none", handler |-> "none", raised |-> FALSE, keyboard |-> NoKeyboard,
     button |-> "none", key |-> "", index |-> 0, text |-> <<>>, searched |-> FALSE,
     reply |-> NoSearchReply, caught |-> FALSE, started |-> 0]

\* the bot before the user's first update: no conversation, empty user_data
NoDialogue ==
    /\ conv = "END"
    /\ user_data = EmptyDict
    /\ screen = {}
    /\ handled = NoUpdate
    /\ running = FALSE

\* Optional[str] of parse_verification_id, once it has been called
Unparsed == [called |-> FALSE, none |-> TRUE, value |-> <<>>]
NoneId == [called |-> TRUE, none |-> TRUE, value |-> <<>>]
SomeId(chars) == [called |-> TRUE, none |-> FALSE, value |-> chars]

\* _generate_device_fingerprint: chars, range(32)
HexChars == <<"0", "1", "2", "3", "4", "5", "6", "7", "8", "9", "a", "b", "c", "d", "e", "f">>
FingerprintLength == 32

\* faulty variant: the characters are drawn from the upper-case digits
generate_device_fingerprint_upper(draws) ==
    [i \in 1..FingerprintLength |->
        <<"0", "1", "2", "3", "4", "5", "6", "7", "8", "9", "A", "B", "C", "D", "E", "F">>[draws[i]]]

\* _generate_device_fingerprint; draws[i] is what random.choice picks at position i
generate_device_fingerprint(draws) ==
    [i \in 1..FingerprintLength |-> HexChars[draws[i]]]

\* samples of the 32 draws of one generation
Draws(k) == [i \in 1..FingerprintLength |-> ((k * i) % Len(HexChars)) + 1]

\* __init__(verification_id)
Construct(vid, draws) ==
    /\ verification_id = vid
    /\ device_fingerprint = generate_device_fingerprint(draws)
    /\ http_client = "open"

\* the session before verify is called
NotCalled ==
    /\ pc = "idle"
    /\ args = [first_name |-> NoneStr, last_name |-> NoneStr, email |-> <<>>,
               birth_date |-> NoneStr, school_data |-> NoneDict]
    /\ first_name = NoneStr
    /\ last_name = NoneStr
    /\ email = <<>>
    /\ birth_date = NoneStr
    /\ school = NoneDict
    /\ img_data = <<>>
    /\ file_size = 0
    /\ current_step = NoneStr
    /\ upload_url = NoneStr
    /\ calls = <<>>
    /\ replies = <<>>
    /\ result = NoResult
    /\ renders = <<>>

\* one session, whose id was given by the caller
Init ==
    /\ Construct("5f3a9c0e", Draws(7))
    /\ NotCalled
    /\ catalog = SCHOOLS
    /\ parked = NoneDict
    /\ given_url = <<>>
    /\ parsed = Unparsed
    /\ NoDialogue

\* ------------------------------------------------------------ verify: helpers
\* faulty variant: the failure dict keeps the currentStep of the last accepted response
Failure_keeps_step(message) ==
    [success |-> FALSE, message |-> message, verification_id |-> verification_id,
     current_step |-> current_step]

\* the except clause of verify: every exception becomes this dict
Failure(message) ==
    [success |-> FALSE, message |-> message, verification_id |-> verification_id]

\* faulty variant: the exception leaves verify, nothing is returned
Fail_propagates(message) ==
    /\ pc' = "raised"
    /\ result' = NoResult
    /\ calls' = calls

\* verify returns Failure(message) without issuing another call
Fail(message) ==
    /\ pc' = "done"
    /\ result' = Failure(message)
    /\ calls' = calls

\* verify issues the next remote request and blocks in it
Issue(call, next_pc) ==
    /\ pc' = next_pc
    /\ calls' = Append(calls, call)
    /\ result' = result

StepUrl(step) ==
    <<SHEERID_BASE_URL, "/rest/v2/verification/", verification_id, "/step/", step>>

\* str(e) of the exceptions Python raises by itself
AttributeErrorMessage == <<"'str' object has no attribute 'get'">>
KeyErrorMessage(key) == <<"'", key, "'">>

\* faulty variant: the domain is appended as given
generate_school_email_as_given(local_part, school_domain) ==
    <<local_part, "@", school_domain>>

\* generate_school_email
generate_school_email(local_part, school_domain) ==
    <<local_part, "@", Upper(school_domain)>>

\* faulty variant: a catalog key is looked up first, the search flag only after it
ResolveSchool_key_first(school_data) ==
    LET direct == [id |-> school_data["id"], idExtended |-> school_data["idExtended"],
                   name |-> school_data["name"],
                   domain |-> Get(school_data, "domain", "university.edu")]
    IN  IF TruthyStr(Get(school_data, "dict_key", NoneStr))
           /\ school_data["dict_key"] \in DOMAIN catalog
        THEN [raised |-> FALSE, key |-> "", school |-> catalog[school_data["dict_key"]]]
        ELSE IF {"id", "idExtended", "name"} \subseteq DOMAIN school_data
        THEN [raised |-> FALSE, key |-> "", school |-> direct]
        ELSE [raised |-> TRUE, key |-> "id", school |-> NoneDict]

\* the school = {...} resolution of verify; raised is the KeyError of a missing key
ResolveSchool(school_data) ==
    LET direct == [id |-> school_data["id"], idExtended |-> school_data["idExtended"],
                   name |-> school_data["name"],
                   domain |-> Get(school_data, "domain", "university.edu")]
        missing == {"id", "idExtended", "name"} \ DOMAIN school_data
        Direct == IF missing = {}
                  THEN [raised |-> FALSE, key |-> "", school |-> direct]
                  ELSE [raised |-> TRUE, key |-> CHOOSE k \in missing : TRUE, school |-> NoneDict]
    IN  IF Get(school_data, "from_search", FALSE)
        THEN Direct
        ELSE IF TruthyStr(Get(school_data, "dict_key", NoneStr))
        THEN IF school_data["dict_key"] \in DOMAIN catalog
             THEN [raised |-> FALSE, key |-> "", school |-> catalog[school_data["dict_key"]]]
             ELSE [raised |-> TRUE, key |-> school_data["dict_key"], school |-> NoneDict]
        ELSE Direct

\* the body of the collectStudentPersonalInfo request
Step2Body(fn, ln, bd, em, sch) ==
    [firstName |-> fn, lastName |-> ln, birthDate |-> bd, email |-> em, phoneNumber |-> "",
     organization |-> [id |-> sch["id"], idExtended |-> sch["idExtended"], name |-> sch["name"]],
     deviceFingerprintHash |-> device_fingerprint,
     locale |-> "en-US",
     metadata |-> [marketConsentValue |-> FALSE,
                   refererUrl |-> <<SHEERID_BASE_URL, "/verify/", PROGRAM_ID,
                                    "/?verificationId=", verification_id>>,
                   verificationId |-> verification_id]]

\* generate_image(first_name, last_name, str(school['id'])) and how it ended
RenderCall(fn, ln, sch, render) ==
    [first_name |-> fn, last_name |-> ln, school_id |-> ToString(sch["id"]),
     raised |-> render.raised, img_data |-> render.img_data]

\* faulty variant: a rendering that raised is attempted once more
Render_retry(fn, ln, sch, render) ==
    renders' = IF render.raised
               THEN renders \o <<RenderCall(fn, ln, sch, render), RenderCall(fn, ln, sch, render)>>
               ELSE Append(renders, RenderCall(fn, ln, sch, render))

\* img_data = generate_image(first_name, last_name, str(school['id']))
Render(fn, ln, sch, render) ==
    renders' = Append(renders, RenderCall(fn, ln, sch, render))

\* faulty variant: the resolved school is stored in the shared catalog
CatalogUse_memoizes(school_data) ==
    catalog' = IF TruthyDict(school_data) /\ "name" \in DOMAIN school_data
               THEN (school_data["name"] :> school_data) @@ catalog
               ELSE catalog

\* config.SCHOOLS is only read (config.SCHOOLS[school_data['dict_key']])
CatalogUse(school_data) == catalog' = catalog

CollectInfoCall(body) ==
    [name |-> "CollectInfo", method |-> "POST",
     url |-> StepUrl("collectStudentPersonalInfo"), has_body |-> TRUE, body |-> body]

\* faulty variant: only a missing argument is refused, an empty descriptor is not
SchoolDataMissing_none_only(school_data) == IsNoneDict(school_data)

\* if not school_data
SchoolDataMissing(school_data) == ~TruthyDict(school_data)

\* ------------------------------------------------------------ verify: the call
(* verify(first_name, last_name, email, birth_date, school_data), from its  *)
(* entry to the first remote call (or to its return, when it fails before). *)
VerifyFrom(Identities, Schools) ==
    /\ pc = "idle"
    /\ \E id \in Identities, school_data \in Schools, name \in GeneratedNames,
          local_part \in GeneratedLocalParts, born \in GeneratedBirthDates,
          render \in RenderResults :
        LET gen == ~TruthyStr(id.first_name) \/ ~TruthyStr(id.last_name)
            fn == IF gen THEN name.first_name ELSE id.first_name
            ln == IF gen THEN name.last_name ELSE id.last_name
            res == ResolveSchool(school_data)
            sch == res.school
            em == IF id.email = <<>>
                  THEN generate_school_email(local_part, sch["domain"])
                  ELSE id.email
            bd == IF ~TruthyStr(id.birth_date) THEN born ELSE id.birth_date
        IN  /\ args' = [first_name |-> id.first_name, last_name |-> id.last_name,
                        email |-> id.email, birth_date |-> id.birth_date,
                        school_data |-> school_data]
            /\ current_step' = "initial"
            /\ CatalogUse(school_data)
            /\ IF SchoolDataMissing(school_data)
               THEN /\ Fail(<<"school_data is required! User must select a school.">>)
                    /\ UNCHANGED <<locals, renders>>
               ELSE IF res.raised
               THEN /\ Fail(KeyErrorMessage(res.key))
                    /\ first_name' = fn
                    /\ last_name' = ln
                    /\ UNCHANGED <<email, birth_date, school, img_data, file_size, renders>>
               ELSE /\ first_name' = fn
                    /\ last_name' = ln
                    /\ email' = em
                    /\ birth_date' = bd
                    /\ school' = sch
                    /\ Render(fn, ln, sch, render)
                    /\ IF render.raised
                       THEN /\ Fail(<<"Failed to generate image: ", "<render error>">>)
                            /\ UNCHANGED <<img_data, file_size>>
                       ELSE /\ img_data' = render.img_data
                            /\ file_size' = Len(render.img_data)
                            /\ Issue(CollectInfoCall(Step2Body(fn, ln, bd, em, sch)), "step2")
    /\ UNCHANGED <<session, beyond, upload_url, replies>>

Verify == VerifyFrom(IdentityInputs, SchoolInputs)

\* ------------------------------------------------------------ verify: the steps
\* _sheerid_request: the (data, status) it returns, or the exception it re-raises
Raised(reply) == reply.kind = "raise"

\* whether data.get(...) works: data is a dict only when the body was a JSON object
HasGet(reply) == reply.kind = "object"

\* f"{data}"
DataStr(reply) == IF reply.kind = "object" THEN ToString(reply.json) ELSE reply.text

\* faulty variant: only 4xx/5xx statuses are treated as failures
Step2StatusFailed_from_400(status) == status >= 400

\* if step2_status != 200
Step2StatusFailed(status) == status # 200

\* if step2_data.get("currentStep") == "error"
Step2Rejected(data) == Get(data, "currentStep", NoneStr) = "error"

\* faulty variant: the list is formatted as a whole instead of joined
Step2ErrorMessage_unjoined(data) ==
    <<"Step 2 error: ", ToString(Get(data, "errorIds", <<"Unknown error">>))>>

\* ", ".join(step2_data.get("errorIds", ["Unknown error"]))
Step2ErrorMessage(data) ==
    <<"Step 2 error: ">> \o Join(Get(data, "errorIds", <<"Unknown error">>), ", ")

Step2FailedMessage(reply) ==
    <<"Step 2 failed (status code ", ToString(reply.status), "): ", DataStr(reply)>>

\* faulty variant: the SSO skip is taken for every step but "sso"
NeedsSsoSkip_inverted(step) == step # "sso"

\* faulty variant: only "sso" triggers the SSO skip
NeedsSsoSkip_sso_only(step) == step = "sso"

\* if current_step in ["sso", "collectStudentPersonalInfo"]
NeedsSsoSkip(step) == step \in {"sso", "collectStudentPersonalInfo"}

\* if not step4_data.get("documents")
UploadSlotMissing(data) == Get(data, "documents", <<>>) = <<>>

\* faulty variant: the upper end of the accepted range is off by one
upload_to_s3_through_300(reply) ==
    IF reply.kind = "raise" THEN FALSE ELSE 200 <= reply.status /\ reply.status <= 300

\* _upload_to_s3
upload_to_s3(reply) ==
    IF Raised(reply) THEN FALSE ELSE 200 <= reply.status /\ reply.status < 300

SsoCall ==
    [name |-> "SsoBypass", method |-> "DELETE", url |-> StepUrl("sso"),
     has_body |-> FALSE, body |-> EmptyDict]

\* faulty variant: the size is declared in whole kilobytes
DocUploadCall_size_in_kb ==
    [name |-> "DocUpload", method |-> "POST", url |-> StepUrl("docUpload"), has_body |-> TRUE,
     body |-> [files |-> <<[fileName |-> "student_card.png", mimeType |-> "image/png",
                            fileSize |-> file_size \div 1024]>>]]

DocUploadCall ==
    [name |-> "DocUpload", method |-> "POST", url |-> StepUrl("docUpload"), has_body |-> TRUE,
     body |-> [files |-> <<[fileName |-> "student_card.png", mimeType |-> "image/png",
                            fileSize |-> file_size]>>]]

TransferCall(url) ==
    [name |-> "Transfer", method |-> "PUT", url |-> <<url>>, has_body |-> TRUE,
     body |-> [content |-> img_data, content_type |-> "image/png"]]

CompleteCall ==
    [name |-> "CompleteUpload", method |-> "POST", url |-> StepUrl("completeDocUpload"),
     has_body |-> FALSE, body |-> EmptyDict]

\* faulty variant: the identity echoed is the one verify was called with
Success_echoes_arguments(final_status) ==
    [success |-> TRUE, pending |-> TRUE,
     message |-> <<"Document submitted, waiting for review">>,
     verification_id |-> verification_id,
     redirect_url |-> Get(final_status, "redirectUrl", NoneStr),
     status |-> final_status,
     student_info |-> [first_name |-> args.first_name, last_name |-> args.last_name,
                       email |-> args.email, birth_date |-> args.birth_date,
                       school_name |-> school["name"]]]

\* the dict verify returns at its end
Success(final_status) ==
    [success |-> TRUE, pending |-> TRUE,
     message |-> <<"Document submitted, waiting for review">>,
     verification_id |-> verification_id,
     redirect_url |-> Get(final_status, "redirectUrl", NoneStr),
     status |-> final_status,
     student_info |-> [first_name |-> first_name, last_name |-> last_name, email |-> email,
                       birth_date |-> birth_date, school_name |-> school["name"]]]

(* The collectStudentPersonalInfo call returns: the status and currentStep  *)
(* checks, then the SSO-bypass request or the docUpload request.            *)
CollectInfoReturnsFrom(Replies) ==
    /\ pc = "step2"
    /\ \E reply \in Replies :
        /\ replies' = Append(replies, reply)
        /\ IF Raised(reply)
           THEN Fail(<<reply.text>>) /\ UNCHANGED current_step
           ELSE IF Step2StatusFailed(reply.status)
           THEN Fail(Step2FailedMessage(reply)) /\ UNCHANGED current_step
           ELSE IF ~HasGet(reply)
           THEN Fail(AttributeErrorMessage) /\ UNCHANGED current_step
           ELSE IF Step2Rejected(reply.json)
           THEN Fail(Step2ErrorMessage(reply.json)) /\ UNCHANGED current_step
           ELSE /\ current_step' = Get(reply.json, "currentStep", current_step)
                /\ IF NeedsSsoSkip(current_step')
                   THEN Issue(SsoCall, "step3")
                   ELSE Issue(DocUploadCall, "step4")
    /\ UNCHANGED <<session, beyond, catalog, renders, args, locals, upload_url>>

CollectInfoReturns == CollectInfoReturnsFrom(CollectReplies)

(* The DELETE .../step/sso call returns: its status is dropped, its         *)
(* currentStep is taken, then the docUpload request.                        *)
SsoReturnsFrom(Replies) ==
    /\ pc = "step3"
    /\ \E reply \in Replies :
        /\ replies' = Append(replies, reply)
        /\ IF Raised(reply)
           THEN Fail(<<reply.text>>) /\ UNCHANGED current_step
           ELSE IF ~HasGet(reply)
           THEN Fail(AttributeErrorMessage) /\ UNCHANGED current_step
           ELSE /\ current_step' = Get(reply.json, "currentStep", current_step)
                /\ Issue(DocUploadCall, "step4")
    /\ UNCHANGED <<session, beyond, catalog, renders, args, locals, upload_url>>

SsoReturns == SsoReturnsFrom(SsoReplies)

\* faulty variant: only an absent documents key is checked ("is None"), so that an empty
\* list reaches documents[0]
DocUploadReturns_absent_only ==
    /\ pc = "step4"
    /\ \E reply \in DocUploadReplies :
        /\ replies' = Append(replies, reply)
        /\ IF reply.kind = "raise"
           THEN Fail(<<reply.text>>) /\ UNCHANGED upload_url
           ELSE IF reply.kind # "object"
           THEN Fail(AttributeErrorMessage) /\ UNCHANGED upload_url
           ELSE IF "documents" \notin DOMAIN reply.json
           THEN Fail(<<"Failed to get upload URL">>) /\ UNCHANGED upload_url
           ELSE IF reply.json["documents"] = <<>>
           THEN Fail(<<"list index out of range">>) /\ UNCHANGED upload_url
           ELSE IF "uploadUrl" \notin DOMAIN reply.json["documents"][1]
           THEN Fail(KeyErrorMessage("uploadUrl")) /\ UNCHANGED upload_url
           ELSE /\ upload_url' = reply.json["documents"][1]["uploadUrl"]
                /\ Issue(TransferCall(upload_url'), "upload")
    /\ UNCHANGED <<session, beyond, catalog, renders, args, locals, current_step>>

(* The docUpload call returns: the documents check, then the PUT.           *)
DocUploadReturnsFrom(Replies) ==
    /\ pc = "step4"
    /\ \E reply \in Replies :
        /\ replies' = Append(replies, reply)
        /\ IF Raised(reply)
           THEN Fail(<<reply.text>>) /\ UNCHANGED upload_url
           ELSE IF ~HasGet(reply)
           THEN Fail(AttributeErrorMessage) /\ UNCHANGED upload_url
           ELSE IF UploadSlotMissing(reply.json)
           THEN Fail(<<"Failed to get upload URL">>) /\ UNCHANGED upload_url
           ELSE IF "uploadUrl" \notin DOMAIN reply.json["documents"][1]
           THEN Fail(KeyErrorMessage("uploadUrl")) /\ UNCHANGED upload_url
           ELSE /\ upload_url' = reply.json["documents"][1]["uploadUrl"]
                /\ Issue(TransferCall(upload_url'), "upload")
    /\ UNCHANGED <<session, beyond, catalog, renders, args, locals, current_step>>

DocUploadReturns == DocUploadReturnsFrom(DocUploadReplies)

\* faulty variant: a failed PUT is attempted once more before giving up
UploadReturns_retry ==
    /\ pc = "upload"
    /\ \E reply \in PutReplies :
        /\ replies' = Append(replies, reply)
        /\ IF ~upload_to_s3(reply)
           THEN IF Cardinality({i \in 1..Len(calls) : calls[i].name = "Transfer"}) < 2
                THEN Issue(TransferCall(upload_url), "upload")
                ELSE Fail(<<"S3 upload failed">>)
           ELSE Issue(CompleteCall, "step6")
    /\ UNCHANGED <<session, beyond, catalog, renders, args, locals, current_step, upload_url>>

(* The PUT of _upload_to_s3 returns, then the completeDocUpload request.    *)
UploadReturnsFrom(Replies) ==
    /\ pc = "upload"
    /\ \E reply \in Replies :
        /\ replies' = Append(replies, reply)
        /\ IF ~upload_to_s3(reply)
           THEN Fail(<<"S3 upload failed">>)
           ELSE Issue(CompleteCall, "step6")
    /\ UNCHANGED <<session, beyond, catalog, renders, args, locals, current_step, upload_url>>

UploadReturns == UploadReturnsFrom(PutReplies)

(* The completeDocUpload call returns, and verify returns its result.       *)
CompleteReturnsFrom(Replies) ==
    /\ pc = "step6"
    /\ \E reply \in Replies :
        /\ replies' = Append(replies, reply)
        /\ IF Raised(reply)
           THEN Fail(<<reply.text>>)
           ELSE IF ~HasGet(reply)
           THEN Fail(AttributeErrorMessage)
           ELSE /\ pc' = "done"
                /\ result' = Success(reply.json)
                /\ calls' = calls
    /\ UNCHANGED <<session, beyond, catalog, renders, args, locals, current_step, upload_url>>

CompleteReturns == CompleteReturnsFrom(CompleteReplies)

Next ==
    \/ Verify
    \/ CollectInfoReturns
    \/ SsoReturns
    \/ DocUploadReturns
    \/ UploadReturns
    \/ CompleteReturns

Spec == Init /\ [][Next]_vars

\* ------------------------------------------------------------ one session, every input
(* The same run seen from its caller: the session is constructed for any id *)
(* and any fingerprint draw, verify is called with every combination of     *)
(* supplied and absent identity fields and every kind of school_data, and   *)
(* the session object is dropped after verify has returned. The responses   *)
(* are one accepted response per step and the failures of steps 2 and 5.    *)
VerificationIds == {"5f3a9c0e", "ABCDEF12"}
DrawSamples == {7, 11}

AllIdentityInputs ==
    {[first_name |-> f, last_name |-> l, email |-> e, birth_date |-> b] :
        f \in {"John", NoneStr}, l \in {"Doe", NoneStr},
        e \in {<<"john.doe@example.org">>, <<>>}, b \in {"2001-02-03", NoneStr}}

\* school_data that names more than one source
SearchWithKeySchoolData ==
    [dict_key |-> "mit", id |-> 3499, idExtended |-> "3499", name |-> "UCLA",
     domain |-> "ucla.edu", from_search |-> TRUE]
KeyWithFieldsSchoolData ==
    [dict_key |-> "psu", id |-> 3499, idExtended |-> "3499", name |-> "UCLA",
     domain |-> "ucla.edu", from_search |-> FALSE]
ExplicitNoDomainSchoolData ==
    [id |-> 2565, idExtended |-> "2565-ext", name |-> "Penn State"]

AllSchoolInputs ==
    SchoolInputs \cup {SearchWithKeySchoolData, KeyWithFieldsSchoolData, ExplicitNoDomainSchoolData}

AcceptedCollectReplies ==
    {ObjectReply(200, ("currentStep" :> s)) : s \in {"sso", "docUpload"}}
    \cup {ObjectReply(200, ("currentStep" :> "error") @@ ("errorIds" :> <<"INVALID_EMAIL">>))}
AcceptedSsoReplies == {ObjectReply(200, ("currentStep" :> "docUpload"))}
AcceptedDocUploadReplies ==
    {ObjectReply(200, ("documents" :> <<("uploadUrl" :> "https://s3.example/upload-1")>>)),
     ObjectReply(200, ("documents" :> <<("uploadUrl" :> "https://s3.example/upload-2"),
                                        ("uploadUrl" :> "https://s3.example/upload-1")>>))}
AcceptedPutReplies == {TextReply(200), TextReply(500)}
AcceptedCompleteReplies ==
    {ObjectReply(200, d) :
        d \in {EmptyDict, ("currentStep" :> "pending"),
               ("currentStep" :> "pending") @@ ("redirectUrl" :> "https://redirect.example/done")}}
    \cup {TextReply(200)}

\* __del__: the session object is collected after its last use
Del ==
    /\ pc = "done"
    /\ http_client = "open"
    /\ http_client' = "closed"
    /\ UNCHANGED <<session, pc, args, locals, current_step, upload_url, calls, replies, result,
                   renders, catalog, parked, front, dialogue>>

InitInputs ==
    /\ \E vid \in VerificationIds, k \in DrawSamples : Construct(vid, Draws(k))
    /\ NotCalled
    /\ catalog = SCHOOLS
    /\ parked = NoneDict
    /\ given_url = <<>>
    /\ parsed = Unparsed
    /\ NoDialogue

NextInputs ==
    \/ VerifyFrom(AllIdentityInputs, AllSchoolInputs)
    \/ CollectInfoReturnsFrom(AcceptedCollectReplies)
    \/ SsoReturnsFrom(AcceptedSsoReplies)
    \/ DocUploadReturnsFrom(AcceptedDocUploadReplies)
    \/ UploadReturnsFrom(AcceptedPutReplies)
    \/ CompleteReturnsFrom(AcceptedCompleteReplies)
    \/ Del

SpecInputs == InitInputs /\ [][NextInputs]_vars

\* ------------------------------------------------------------ two sessions
(* Two SheerIDVerifier objects whose runs interleave. The variables hold    *)
(* the object whose verify is executing; parked holds the other object and  *)
(* the position of its run. Switch hands the processor to the other run. A  *)
(* run is suspended only while it waits in a remote call or before or after *)
(* verify; config.SCHOOLS is the one object both runs read.                 *)
SessionState ==
    [verification_id |-> verification_id, device_fingerprint |-> device_fingerprint,
     http_client |-> http_client, pc |-> pc, args |-> args,
     first_name |-> first_name, last_name |-> last_name, email |-> email,
     birth_date |-> birth_date, school |-> school, img_data |-> img_data,
     file_size |-> file_size, current_step |-> current_step, upload_url |-> upload_url,
     calls |-> calls, replies |-> replies, result |-> result, renders |-> renders]

Switch ==
    /\ ~IsNoneDict(parked)
    /\ parked' = SessionState
    /\ verification_id' = parked.verification_id
    /\ device_fingerprint' = parked.device_fingerprint
    /\ http_client' = parked.http_client
    /\ pc' = parked.pc
    /\ args' = parked.args
    /\ first_name' = parked.first_name
    /\ last_name' = parked.last_name
    /\ email' = parked.email
    /\ birth_date' = parked.birth_date
    /\ school' = parked.school
    /\ img_data' = parked.img_data
    /\ file_size' = parked.file_size
    /\ current_step' = parked.current_step
    /\ upload_url' = parked.upload_url
    /\ calls' = parked.calls
    /\ replies' = parked.replies
    /\ result' = parked.result
    /\ renders' = parked.renders
    /\ UNCHANGED <<catalog, front, dialogue>>

InterleavedIdentities == {NoIdentity}
InterleavedSchools == {NoneDict, PresetSchoolData, SearchSchoolData}

InitTwo ==
    /\ Construct("5f3a9c0e", Draws(7))
    /\ NotCalled
    /\ catalog = SCHOOLS
    /\ parked = [verification_id |-> "ABCDEF12",
                 device_fingerprint |-> generate_device_fingerprint(Draws(11)),
                 http_client |-> "open", pc |-> "idle",
                 args |-> [first_name |-> NoneStr, last_name |-> NoneStr, email |-> <<>>,
                           birth_date |-> NoneStr, school_data |-> NoneDict],
                 first_name |-> NoneStr, last_name |-> NoneStr, email |-> <<>>,
                 birth_date |-> NoneStr, school |-> NoneDict, img_data |-> <<>>,
                 file_size |-> 0, current_step |-> NoneStr, upload_url |-> NoneStr,
                 calls |-> <<>>, replies |-> <<>>, result |-> NoResult, renders |-> <<>>]
    /\ given_url = <<>>
    /\ parsed = Unparsed
    /\ NoDialogue

NextTwo ==
    \/ VerifyFrom(InterleavedIdentities, InterleavedSchools)
    \/ CollectInfoReturnsFrom(AcceptedCollectReplies)
    \/ SsoReturnsFrom(AcceptedSsoReplies)
    \/ DocUploadReturnsFrom(AcceptedDocUploadReplies)
    \/ UploadReturnsFrom(AcceptedPutReplies)
    \/ CompleteReturnsFrom(AcceptedCompleteReplies)
    \/ Switch

SpecTwo == InitTwo /\ [][NextTwo]_vars

\* ------------------------------------------------------------ parse_verification_id
(* A URL is the sequence of its characters. re.search with the pattern      *)
(* verificationId=([a-f0-9]+) and re.IGNORECASE: the leftmost position at   *)
(* which the literal matches, letter case ignored, and is followed by at    *)
(* least one hexadecimal digit; group 1 is the longest run of such digits.  *)
MaxValueLen == 3

UpperLetters == <<"A", "B", "C", "D", "E", "F", "I", "N", "O", "R", "T", "V", "X", "Y", "Z">>
LowerLetters == <<"a", "b", "c", "d", "e", "f", "i", "n", "o", "r", "t", "v", "x", "y", "z">>

\* str.lower() of one character, as re.IGNORECASE compares
Lower(c) ==
    IF \E i \in 1..Len(UpperLetters) : UpperLetters[i] = c
    THEN LowerLetters[CHOOSE i \in 1..Len(UpperLetters) : UpperLetters[i] = c]
    ELSE c

\* the literal part of the pattern
KeyPattern == <<"v", "e", "r", "i", "f", "i", "c", "a", "t", "i", "o", "n", "I", "d", "=">>

\* [a-f0-9] under re.IGNORECASE
IsHexChar(c) == Lower(c) \in Range(HexChars)

\* the pattern matches at position i of url
MatchesAt(url, i) ==
    /\ i + Len(KeyPattern) <= Len(url)
    /\ \A j \in 1..Len(KeyPattern) : Lower(url[i + j - 1]) = Lower(KeyPattern[j])
    /\ IsHexChar(url[i + Len(KeyPattern)])

\* ([a-f0-9]+) is greedy: the run of digits from position start on
HexRun(url, start) ==
    LET ends == {k \in start..Len(url) : \A m \in start..k : IsHexChar(url[m])}
        last == CHOOSE k \in ends : \A other \in ends : other <= k
    IN  SubSeq(url, start, last)

parse_verification_id(url) ==
    LET hits == {i \in 1..Len(url) : MatchesAt(url, i)}
    IN  IF hits = {}
        THEN NoneId
        ELSE LET first == CHOOSE i \in hits : \A other \in hits : i <= other
             IN  SomeId(HexRun(url, first + Len(KeyPattern)))

\* the URLs given: a prefix, a parameter name with "=", a value, a rest
UrlPrefixes == {<<"?">>, <<"?", "o", "=", "1", "&">>, <<"?", "x">>}
UrlNames ==
    {KeyPattern,
     <<"V", "E", "R", "I", "F", "I", "C", "A", "T", "I", "O", "N", "I", "D", "=">>,
     <<"i", "d", "=">>}
ValueChars == {"a", "B", "1", "x", "-"}
UrlValues == SeqUpTo(ValueChars, MaxValueLen)
UrlRests == {<<>>, <<"&", "o", "=", "1">>}
Urls == {p \o n \o v \o r : p \in UrlPrefixes, n \in UrlNames, v \in UrlValues, r \in UrlRests}

\* verification_id = SheerIDVerifier.parse_verification_id(url)
Parse ==
    /\ ~parsed.called
    /\ parsed' = parse_verification_id(given_url)
    /\ UNCHANGED <<session, pc, args, locals, current_step, upload_url, calls, replies, result,
                   renders, catalog, http_client, parked, given_url, dialogue>>

InitParse ==
    /\ Construct("5f3a9c0e", Draws(7))
    /\ NotCalled
    /\ catalog = SCHOOLS
    /\ parked = NoneDict
    /\ given_url \in Urls
    /\ parsed = Unparsed
    /\ NoDialogue

NextParse == Parse

SpecParse == InitParse /\ [][NextParse]_vars

\* ------------------------------------------------------------ the conversation
(* The ConversationHandler of main() for one user. conv is the state of the *)
(* conversation ("END" when there is none); updates are handled one at a    *)
(* time; an update no handler of the current state matches is dropped; a    *)
(* handler that raises leaves conv as it was. user_data outlives a          *)
(* conversation. A keyboard stays on screen until the message that holds it *)
(* is edited, and any button of any keyboard on screen can be pressed.      *)
SearchLimit == 10

\* str.strip() for blanks
RECURSIVE Strip(_)
Strip(s) ==
    IF s = <<>> THEN s
    ELSE IF Head(s) = " " THEN Strip(Tail(s))
    ELSE IF s[Len(s)] = " " THEN Strip(SubSeq(s, 1, Len(s) - 1))
    ELSE s

\* the text messages the user sends: as a URL, and as the name of a school
Texts ==
    {<<" ", "?">> \o KeyPattern \o <<"a", "B", "1", " ">>,
     <<"?", "o", "=", "1">>}
Queries ==
    {<<"m", "i", "t">>,
     <<" ", "m", "i", " ">>}

\* one element of the organization search response
OrganizationNames ==
    <<"Alder", "Birch", "Cedar", "Dogwood", "Elm", "Fir", "Ginkgo", "Hazel", "Ivy", "Juniper",
      "Kapok", "Larch">>
Organization(n, type, country) ==
    ("id" :> 3000 + n) @@ ("name" :> OrganizationNames[n])
    @@ ("type" :> type) @@ ("country" :> country)
University(n) == Organization(n, "UNIVERSITY", "US")
Nameless(n) == ("id" :> 3000 + n) @@ ("type" :> "UNIVERSITY") @@ ("country" :> "US")

\* what client.get(config.ORGSEARCH_API_URL, ...) can come back with: the request
\* raised, response.json() is not a list of objects, or it is the list results
SearchReply(kind, status, results) == [kind |-> kind, status |-> status, results |-> results]
SearchReplies ==
    {SearchReply("raise", 0, <<>>),
     SearchReply("text", 200, <<>>),
     SearchReply("list", 500, <<University(1)>>),
     SearchReply("list", 200, <<Organization(4, "HIGH_SCHOOL", "US"), Organization(5, "UNIVERSITY", "CA")>>),
     SearchReply("list", 200, <<University(1), Organization(5, "UNIVERSITY", "CA"), University(2)>>),
     SearchReply("list", 200, [i \in 1..(SearchLimit + 2) |-> University(3 - (i % 3))]),
     SearchReply("list", 200, <<University(1), Nameless(6)>>)}

\* school.get('type') == 'UNIVERSITY' and school.get('country') == 'US'
IsUsUniversity(org) ==
    Get(org, "type", NoneStr) = "UNIVERSITY" /\ Get(org, "country", NoneStr) = "US"

\* filtered_results[:10]
Stored(results) ==
    LET filtered_results == SelectSeq(results, IsUsUniversity)
    IN  SubSeq(filtered_results, 1,
               IF Len(filtered_results) < SearchLimit THEN Len(filtered_results) ELSE SearchLimit)

\* the except clause of search_schools_api is entered: the request raised,
\* response.json() is not a list of objects, or a stored result has no 'name'
Caught(reply) ==
    \/ reply.kind = "raise"
    \/ reply.status = 200 /\ reply.kind = "text"
    \/ /\ reply.status = 200
       /\ reply.kind = "list"
       /\ \E i \in 1..Len(Stored(reply.results)) : "name" \notin DOMAIN Stored(reply.results)[i]

\* the keyboards the handlers send
MethodKeyboard == [kind |-> "method", schools |-> <<>>]
PresetKeyboard == [kind |-> "preset", schools |-> <<>>]
ResultsKeyboard(schools) == [kind |-> "results", schools |-> schools]

\* a button: its callback_data, split into its prefix, the catalog key and the index
Button(data, key, index) == [data |-> data, key |-> key, index |-> index]
Buttons(keyboard) ==
    CASE keyboard.kind = "method" ->
            {Button("use_preset", "", 0), Button("search_manual", "", 0)}
      [] keyboard.kind = "preset" ->
            {Button("school_preset_", k, 0) : k \in DOMAIN catalog}
            \cup {Button("back_to_method", "", 0)}
      [] keyboard.kind = "results" ->
            {Button("school_search_", "", i - 1) : i \in 1..Len(keyboard.schools)}
            \cup {Button("search_manual", "", 0), Button("back_to_method", "", 0)}
      [] OTHER -> {}

\* the CallbackQueryHandler patterns of each state
Patterns(state) ==
    CASE state = "CHOOSE_SCHOOL_METHOD" ->
            {"use_preset", "search_manual", "school_preset_", "back_to_method"}
      [] state = "SELECT_FROM_SEARCH" ->
            {"school_search_", "search_manual", "back_to_method"}
      [] OTHER -> {}

\* what a handler leaves in handled
Handled(update, handler, raised) ==
    [update |-> update, handler |-> handler, raised |-> raised, keyboard |-> NoKeyboard,
     button |-> "none", key |-> "", index |-> 0, text |-> <<>>, searched |-> FALSE,
     reply |-> NoSearchReply, caught |-> FALSE, started |-> 0]
Pressed(handler, raised, keyboard, b) ==
    [Handled("button", handler, raised) EXCEPT
        !.keyboard = keyboard, !.button = b.data, !.key = b.key, !.index = b.index]

\* what the handlers of the conversation do not touch
run == <<session, pc, args, locals, current_step, upload_url, calls, replies, result,
         renders, http_client>>
aside == <<catalog, parked, front>>

\* an update that no handler of the current state takes: /start inside a
\* conversation, /cancel outside one, a text where none is awaited, or a button
\* whose pattern the state does not list
Dropped ==
    /\ ~running
    /\ \/ handled' = Handled("message", "none", FALSE)
       \/ /\ {b \in UNION {Buttons(keyboard) : keyboard \in screen} :
                    b.data \notin Patterns(conv)} # {}
          /\ handled' = Handled("button", "none", FALSE)
    /\ UNCHANGED <<conv, user_data, screen, running, run, aside>>

\* /start, the entry point
start_handler ==
    /\ ~running
    /\ conv = "END"
    /\ conv' = "WAITING_URL"
    /\ handled' = Handled("/start", "start", FALSE)
    /\ UNCHANGED <<user_data, screen, running, run, aside>>

\* /cancel, the fallback of every state
cancel ==
    /\ ~running
    /\ conv # "END"
    /\ conv' = "END"
    /\ handled' = Handled("/cancel", "cancel", FALSE)
    /\ UNCHANGED <<user_data, screen, running, run, aside>>

\* faulty variant: the parsed id is stored whether or not the URL held one
receive_url_unchecked ==
    /\ ~running
    /\ conv = "WAITING_URL"
    /\ \E text \in Texts :
        LET id == parse_verification_id(Strip(text))
        IN  /\ handled' = [Handled("text", "receive_url", FALSE) EXCEPT !.text = text]
            /\ user_data' = ("verification_id" :> id.value) @@ user_data
            /\ screen' = screen \cup {MethodKeyboard}
            /\ conv' = "CHOOSE_SCHOOL_METHOD"
    /\ UNCHANGED <<running, run, aside>>

receive_url ==
    /\ ~running
    /\ conv = "WAITING_URL"
    /\ \E text \in Texts :
        LET id == parse_verification_id(Strip(text))
        IN  /\ handled' = [Handled("text", "receive_url", FALSE) EXCEPT !.text = text]
            /\ IF id.none
               THEN UNCHANGED <<conv, user_data, screen>>
               ELSE /\ user_data' = ("verification_id" :> id.value) @@ user_data
                    /\ screen' = screen \cup {MethodKeyboard}
                    /\ conv' = "CHOOSE_SCHOOL_METHOD"
    /\ UNCHANGED <<running, run, aside>>

use_preset_schools ==
    /\ ~running
    /\ "use_preset" \in Patterns(conv)
    /\ \E keyboard \in screen : \E b \in Buttons(keyboard) :
        /\ b.data = "use_preset"
        /\ handled' = Pressed("use_preset_schools", FALSE, keyboard, b)
        /\ screen' = (screen \ {keyboard}) \cup {PresetKeyboard}
    /\ conv' = "CHOOSE_SCHOOL_METHOD"
    /\ UNCHANGED <<user_data, running, run, aside>>

search_manual_prompt ==
    /\ ~running
    /\ "search_manual" \in Patterns(conv)
    /\ \E keyboard \in screen : \E b \in Buttons(keyboard) :
        /\ b.data = "search_manual"
        /\ handled' = Pressed("search_manual_prompt", FALSE, keyboard, b)
        /\ screen' = screen \ {keyboard}
    /\ conv' = "WAITING_SCHOOL_SEARCH"
    /\ UNCHANGED <<user_data, running, run, aside>>

back_to_method ==
    /\ ~running
    /\ "back_to_method" \in Patterns(conv)
    /\ \E keyboard \in screen : \E b \in Buttons(keyboard) :
        /\ b.data = "back_to_method"
        /\ handled' = Pressed("back_to_method", FALSE, keyboard, b)
        /\ screen' = (screen \ {keyboard}) \cup {MethodKeyboard}
    /\ conv' = "CHOOSE_SCHOOL_METHOD"
    /\ UNCHANGED <<user_data, running, run, aside>>

search_schools_api ==
    /\ ~running
    /\ conv = "WAITING_SCHOOL_SEARCH"
    /\ \E text \in Queries, reply \in SearchReplies :
        LET search_query == Strip(text)
            stored == Stored(reply.results)
            took == [Handled("text", "search_schools_api", FALSE) EXCEPT !.text = text]
        IN  IF Len(search_query) < 3
            THEN /\ handled' = took
                 /\ UNCHANGED <<conv, user_data, screen>>
            ELSE /\ handled' = [took EXCEPT !.searched = TRUE, !.reply = reply,
                                             !.caught = Caught(reply)]
                 /\ IF \/ reply.kind = "raise"
                       \/ reply.status # 200
                       \/ reply.kind = "text"
                       \/ stored = <<>>
                    THEN UNCHANGED <<conv, user_data, screen>>
                    ELSE /\ user_data' = ("search_results" :> stored) @@ user_data
                         /\ IF \E i \in 1..Len(stored) : "name" \notin DOMAIN stored[i]
                            THEN UNCHANGED <<conv, screen>>
                            ELSE /\ screen' = screen \cup {ResultsKeyboard(stored)}
                                 /\ conv' = "SELECT_FROM_SEARCH"
    /\ UNCHANGED <<running, run, aside>>

\* start_verification up to its call of verify: the message that held the pressed
\* keyboard is edited, and a SheerIDVerifier is constructed for the stored id
start_verification(keyboard) ==
    /\ screen' = screen \ {keyboard}
    /\ verification_id' = user_data["verification_id"]
    /\ device_fingerprint' = generate_device_fingerprint(Draws(7))
    /\ http_client' = "open"
    /\ pc' = "idle"
    /\ args' = [first_name |-> NoneStr, last_name |-> NoneStr, email |-> <<>>,
                birth_date |-> NoneStr, school_data |-> NoneDict]
    /\ first_name' = NoneStr
    /\ last_name' = NoneStr
    /\ email' = <<>>
    /\ birth_date' = NoneStr
    /\ school' = NoneDict
    /\ img_data' = <<>>
    /\ file_size' = 0
    /\ current_step' = NoneStr
    /\ upload_url' = NoneStr
    /\ calls' = <<>>
    /\ replies' = <<>>
    /\ result' = NoResult
    /\ renders' = <<>>
    /\ running' = TRUE

\* a select handler: the school is stored, then start_verification is awaited
Select(handler, keyboard, b, selected) ==
    /\ user_data' = ("selected_school" :> selected) @@ user_data
    /\ conv' = conv
    /\ IF "verification_id" \notin DOMAIN user_data
       THEN /\ handled' = Pressed(handler, TRUE, keyboard, b)
            /\ UNCHANGED <<screen, running, run>>
       ELSE /\ handled' = [Pressed(handler, FALSE, keyboard, b) EXCEPT !.started = 1]
            /\ start_verification(keyboard)

select_preset_school ==
    /\ ~running
    /\ "school_preset_" \in Patterns(conv)
    /\ \E keyboard \in screen : \E b \in Buttons(keyboard) :
        /\ b.data = "school_preset_"
        /\ IF b.key \notin DOMAIN catalog
           THEN /\ handled' = Pressed("select_preset_school", TRUE, keyboard, b)
                /\ UNCHANGED <<conv, user_data, screen, running, run>>
           ELSE LET preset == catalog[b.key]
                IN  Select("select_preset_school", keyboard, b,
                           [dict_key |-> b.key, id |-> preset["id"],
                            idExtended |-> preset["idExtended"], name |-> preset["name"],
                            domain |-> preset["domain"], from_search |-> FALSE])
    /\ UNCHANGED aside

select_search_result ==
    /\ ~running
    /\ "school_search_" \in Patterns(conv)
    /\ \E keyboard \in screen : \E b \in Buttons(keyboard) :
        /\ b.data = "school_search_"
        /\ LET idx == b.index
               search_results == Get(user_data, "search_results", <<>>)
           IN  IF \/ "search_results" \notin DOMAIN user_data
                  \/ idx + 1 > Len(search_results)
                  \/ {"id", "name"} \ DOMAIN search_results[idx + 1] # {}
               THEN /\ handled' = Pressed("select_search_result", TRUE, keyboard, b)
                    /\ UNCHANGED <<conv, user_data, screen, running, run>>
               ELSE LET found == search_results[idx + 1]
                    IN  Select("select_search_result", keyboard, b,
                               [dict_key |-> NoneStr, id |-> found["id"],
                                idExtended |-> ToString(found["id"]), name |-> found["name"],
                                domain |-> Get(found, "domain", "university.edu"),
                                from_search |-> TRUE])
    /\ UNCHANGED aside

\* start_verification: result = verifier.verify(school_data=school)
verify_selected ==
    /\ running
    /\ VerifyFrom({NoIdentity}, {user_data["selected_school"]})

\* start_verification shows the result, and the select handler returns END
start_verification_returns ==
    /\ running
    /\ pc = "done"
    /\ running' = FALSE
    /\ conv' = "END"
    /\ UNCHANGED <<user_data, screen, handled, run, aside>>

\* the responses of the remote service during a run started by the bot
RunCollectReplies ==
    {ObjectReply(200, ("currentStep" :> "sso")),
     ObjectReply(200, ("currentStep" :> "error") @@ ("errorIds" :> <<"INVALID_EMAIL">>))}
RunSsoReplies == {ObjectReply(200, ("currentStep" :> "docUpload"))}
RunDocUploadReplies ==
    {ObjectReply(200, ("documents" :> <<("uploadUrl" :> "https://s3.example/upload-1")>>))}
RunPutReplies == {TextReply(200)}
RunCompleteReplies == {ObjectReply(200, ("currentStep" :> "pending"))}

InitBot ==
    /\ verification_id = <<>>
    /\ device_fingerprint = <<>>
    /\ http_client = "none"
    /\ NotCalled
    /\ catalog = SCHOOLS
    /\ parked = NoneDict
    /\ given_url = <<>>
    /\ parsed = Unparsed
    /\ NoDialogue

NextBot ==
    \/ start_handler
    \/ cancel
    \/ receive_url
    \/ use_preset_schools
    \/ search_manual_prompt
    \/ back_to_method
    \/ search_schools_api
    \/ select_preset_school
    \/ select_search_result
    \/ Dropped
    \/ verify_selected
    \/ CollectInfoReturnsFrom(RunCollectReplies)
    \/ SsoReturnsFrom(RunSsoReplies)
    \/ DocUploadReturnsFrom(RunDocUploadReplies)
    \/ UploadReturnsFrom(RunPutReplies)
    \/ CompleteReturnsFrom(RunCompleteReplies)
    \/ start_verification_returns

SpecBot == InitBot /\ [][NextBot]_vars

\* ------------------------------------------------------------ vocabulary of the properties
IsPrefix(s, t) == Len(s) <= Len(t) /\ \A i \in 1..Len(s) : s[i] = t[i]

CallNames == [i \in 1..Len(calls) |-> calls[i].name]
Issued(name) == \E i \in 1..Len(calls) : calls[i].name = name
IndexOf(name) == CHOOSE i \in 1..Len(calls) : calls[i].name = name
TimesIssued(name) == Cardinality({i \in 1..Len(calls) : calls[i].name = name})
\* the call came back (with a response or with a connection failure)
Answered(name) == Issued(name) /\ IndexOf(name) <= Len(replies)
ReplyTo(name) == replies[IndexOf(name)]
\* the call came back with an HTTP response
Responded(name) == Answered(name) /\ ReplyTo(name).kind # "raise"

Done == pc = "done"
Failed == Done /\ ~result.success
Succeeded == Done /\ result.success

OrderWithSso == <<"CollectInfo", "SsoBypass", "DocUpload", "Transfer", "CompleteUpload">>
OrderWithoutSso == <<"CollectInfo", "DocUpload", "Transfer", "CompleteUpload">>

\* the CollectInfo response passed both checks of step 1
CollectInfoAccepted ==
    /\ Responded("CollectInfo")
    /\ ReplyTo("CollectInfo").status = 200
    /\ ReplyTo("CollectInfo").kind = "object"
    /\ Get(ReplyTo("CollectInfo").json, "currentStep", NoneStr) # "error"

\* ------------------------------------------------------------ C1
(* C1: in every reachable state the remote calls issued so far, in order,   *)
(* are a prefix of CollectInfo, [SsoBypass], DocUpload, Transfer,           *)
(* CompleteUpload, each call is issued at most once, and every call but the *)
(* last has already come back (no call is re-entered).                      *)
C1_CallsFollowFixedOrder ==
    /\ IsPrefix(CallNames, OrderWithSso) \/ IsPrefix(CallNames, OrderWithoutSso)
    /\ \A name \in Range(OrderWithSso) : TimesIssued(name) <= 1
    /\ Len(replies) <= Len(calls)
    /\ Len(calls) <= Len(replies) + 1

\* a run that made all five calls
C1_Witness == Done /\ CallNames = OrderWithSso /\ Len(replies) = Len(OrderWithSso)

\* ------------------------------------------------------------ C2
(* C2: when CollectInfo returns HTTP 200 with currentStep "error", verify   *)
(* has returned a failure whose message is "Step 2 error: " followed by the *)
(* errorIds in order, separated by ", " (by "Unknown error" when errorIds   *)
(* is absent), and CollectInfo is the only remote call of the run.          *)
C2_RejectedReply ==
    /\ Responded("CollectInfo")
    /\ ReplyTo("CollectInfo").status = 200
    /\ ReplyTo("CollectInfo").kind = "object"
    /\ Get(ReplyTo("CollectInfo").json, "currentStep", NoneStr) = "error"

C2_RejectionReportsErrorIds ==
    C2_RejectedReply =>
        LET data == ReplyTo("CollectInfo").json
            msg == result.message
        IN  /\ Failed
            /\ Len(calls) = 1
            /\ msg[1] = "Step 2 error: "
            /\ IF "errorIds" \in DOMAIN data
               THEN LET ids == data["errorIds"]
                    IN  /\ Len(msg) = (IF Len(ids) = 0 THEN 1 ELSE 2 * Len(ids))
                        /\ \A i \in 1..Len(ids) : msg[2 * i] = ids[i]
                        /\ \A i \in 1..(Len(ids) - 1) : msg[2 * i + 1] = ", "
               ELSE msg = <<"Step 2 error: ", "Unknown error">>

\* a rejection that carries two error ids
C2_Witness ==
    /\ C2_RejectedReply
    /\ "errorIds" \in DOMAIN ReplyTo("CollectInfo").json
    /\ Len(ReplyTo("CollectInfo").json["errorIds"]) = 2
    /\ Failed

\* ------------------------------------------------------------ C3
(* C3: when CollectInfo returns an HTTP status other than 200, verify has   *)
(* returned a failure whose message carries the status code and the raw     *)
(* body, whatever the body is, and CollectInfo is the only remote call.     *)
C3_Non200Reply ==
    Responded("CollectInfo") /\ ReplyTo("CollectInfo").status # 200

C3_Non200IsTransportError ==
    C3_Non200Reply =>
        LET reply == ReplyTo("CollectInfo")
            raw == IF reply.kind = "object" THEN ToString(reply.json) ELSE reply.text
        IN  /\ Failed
            /\ Len(calls) = 1
            /\ ToString(reply.status) \in Range(result.message)
            /\ raw \in Range(result.message)
            /\ result.message[1] = "Step 2 failed (status code "

\* a 201 whose body names a non-error next step
C3_Witness ==
    /\ C3_Non200Reply
    /\ ReplyTo("CollectInfo").status = 201
    /\ ReplyTo("CollectInfo").kind = "object"
    /\ Get(ReplyTo("CollectInfo").json, "currentStep", NoneStr) = "docUpload"
    /\ Failed

\* ------------------------------------------------------------ C4
\* the currentStep key of the CollectInfo response, when it has one
CollectInfoNamesStep ==
    /\ Responded("CollectInfo")
    /\ ReplyTo("CollectInfo").kind = "object"
    /\ "currentStep" \in DOMAIN ReplyTo("CollectInfo").json
ReportedStep == ReplyTo("CollectInfo").json["currentStep"]

\* after a "sso" answer the SSO bypass is the next call, ahead of any slot request
C4_SsoBypassFirst ==
    (CollectInfoNamesStep /\ ReportedStep = "sso") =>
        /\ Issued("DocUpload") => (Issued("SsoBypass") /\ IndexOf("SsoBypass") < IndexOf("DocUpload"))
        /\ ReplyTo("CollectInfo").status = 200 => (Len(calls) >= 2 /\ calls[2].name = "SsoBypass")

(* C4 as stated: after currentStep "sso" the SSO bypass is issued before    *)
(* the upload-slot request, and after ANY other currentStep value it is     *)
(* never issued.                                                            *)
C4_Original ==
    /\ C4_SsoBypassFirst
    /\ (CollectInfoNamesStep /\ ReportedStep # "sso") => ~Issued("SsoBypass")

(* C4, amended: after currentStep "sso" the SSO bypass is issued before the *)
(* upload-slot request, and after any currentStep value other than "sso"    *)
(* and "collectStudentPersonalInfo" it is never issued.                     *)
C4_SsoBypassOnlyWhenAsked ==
    /\ C4_SsoBypassFirst
    /\ (CollectInfoNamesStep /\ ReportedStep \notin {"sso", "collectStudentPersonalInfo"})
           => ~Issued("SsoBypass")

\* a run in which "sso" was answered and both calls were made, in that order
C4_Witness ==
    /\ CollectInfoNamesStep
    /\ ReportedStep = "sso"
    /\ Issued("SsoBypass")
    /\ Issued("DocUpload")
    /\ IndexOf("SsoBypass") < IndexOf("DocUpload")

\* ------------------------------------------------------------ C5
(* C5: after an accepted CollectInfo response the second call is the SSO    *)
(* bypass (DELETE on .../step/sso, no body) exactly when the reported       *)
(* currentStep is "sso" or "collectStudentPersonalInfo"; for every other    *)
(* value, and when none is reported, the second call is the upload-slot     *)
(* request and no SSO bypass is made in the run.                            *)
C5_SsoBypassIffSsoOrCollect ==
    CollectInfoAccepted =>
        LET step == Get(ReplyTo("CollectInfo").json, "currentStep", NoneStr)
        IN  /\ Len(calls) >= 2
            /\ Issued("SsoBypass") <=> step \in {"sso", "collectStudentPersonalInfo"}
            /\ IF step \in {"sso", "collectStudentPersonalInfo"}
               THEN /\ calls[2].name = "SsoBypass"
                    /\ calls[2].method = "DELETE"
                    /\ ~calls[2].has_body
                    /\ calls[2].url[Len(calls[2].url)] = "sso"
               ELSE /\ calls[2].name = "DocUpload"
                    /\ calls[2].method = "POST"

\* "collectStudentPersonalInfo" was answered and the bypass was made
C5_Witness ==
    /\ CollectInfoAccepted
    /\ Get(ReplyTo("CollectInfo").json, "currentStep", NoneStr) = "collectStudentPersonalInfo"
    /\ Len(calls) >= 2
    /\ calls[2].name = "SsoBypass"

\* ------------------------------------------------------------ C6
(* C6: however the SSO-bypass call comes back (a non-200 status, a          *)
(* connection failure, a response without a usable currentStep), the run    *)
(* goes on: the upload-slot request is the next call, and when the response *)
(* gave no currentStep the engine still holds the step CollectInfo reported.*)
C6_SsoBypassIsBestEffort ==
    Answered("SsoBypass") =>
        /\ Len(calls) >= 3
        /\ calls[3].name = "DocUpload"
        /\ "currentStep" \notin DOMAIN ReplyTo("SsoBypass").json
               => current_step = ReplyTo("CollectInfo").json["currentStep"]

\* ------------------------------------------------------------ C7
(* C7: when the upload-slot response has no documents list or an empty one, *)
(* verify has returned the failure "Failed to get upload URL"; and for      *)
(* every response that carries no documents, a JSON object or not, verify   *)
(* has returned a failure and neither the PUT nor the completion call is    *)
(* made.                                                                    *)
C7_NoDocuments ==
    /\ Responded("DocUpload")
    /\ Get(ReplyTo("DocUpload").json, "documents", <<>>) = <<>>

C7_NoSlotNoTransfer ==
    C7_NoDocuments =>
        /\ Failed
        /\ ~Issued("Transfer")
        /\ ~Issued("CompleteUpload")
        /\ ReplyTo("DocUpload").kind = "object" => result.message = <<"Failed to get upload URL">>

\* an HTTP 200 upload-slot response whose documents list is empty
C7_Witness ==
    /\ C7_NoDocuments
    /\ ReplyTo("DocUpload").status = 200
    /\ "documents" \in DOMAIN ReplyTo("DocUpload").json
    /\ Failed

\* ------------------------------------------------------------ C8
(* C8: when the PUT has come back with a status in 200..299 the completion  *)
(* call is the next call; when it came back with any other status, or       *)
(* failed at transport level, verify has returned the failure "S3 upload    *)
(* failed" and the completion call is never made.                           *)
C8_TransferSucceedsExactlyOn2xx ==
    Answered("Transfer") =>
        LET reply == ReplyTo("Transfer")
        IN  IF reply.kind # "raise" /\ reply.status \in 200..299
            THEN /\ Len(calls) = IndexOf("Transfer") + 1
                 /\ calls[Len(calls)].name = "CompleteUpload"
            ELSE /\ Failed
                 /\ result.message = <<"S3 upload failed">>
                 /\ ~Issued("CompleteUpload")

\* the PUT came back with 299 and the completion call followed
C8_Witness ==
    /\ Answered("Transfer")
    /\ ReplyTo("Transfer").status = 299
    /\ Issued("CompleteUpload")

\* ------------------------------------------------------------ C9
(* C9: once the transfer has succeeded, whatever response the completion    *)
(* call gets (any status, any currentStep or none), verify returns the      *)
(* pending-review success.                                                  *)
C9_CompletionResponseNeverFails ==
    Responded("CompleteUpload") =>
        /\ Succeeded
        /\ result.pending
        /\ result.message = <<"Document submitted, waiting for review">>

\* ------------------------------------------------------------ C10
(* C10: a run keeps going until it has returned, it returns once, with      *)
(* Success exactly when the completion call was completed (it got its       *)
(* response) and with Failure exactly when a stage before that failed, and  *)
(* Success only after CollectInfo, the slot request, the transfer and the   *)
(* completion call were all made and answered.                              *)
C10_TerminalOutcome ==
    /\ Done \/ ENABLED Next
    /\ ~IsNoneDict(result) <=> Done
    /\ Done =>
        /\ result.success <=> Responded("CompleteUpload")
        /\ result.success =>
               \A name \in Range(OrderWithoutSso) : Responded(name)

\* ------------------------------------------------------------ C11
(* C11: no exception leaves verify. Whenever one of the failures of a run   *)
(* has happened (no school_data, a dict_key that the catalog does not have, *)
(* generate_image raised, a JSON step failed at connection level or got a   *)
(* non-JSON body, the first document descriptor has no uploadUrl), verify   *)
(* has returned a dict with success false, the session's verification id    *)
(* and a non-empty message.                                                 *)
C11_JsonStepFailed ==
    \E i \in 1..Len(replies) :
        /\ calls[i].name # "Transfer"
        /\ replies[i].kind \in {"raise", "text"}

C11_MalformedDescriptor ==
    /\ Responded("DocUpload")
    /\ ReplyTo("DocUpload").kind = "object"
    /\ Get(ReplyTo("DocUpload").json, "documents", <<>>) # <<>>
    /\ "uploadUrl" \notin DOMAIN ReplyTo("DocUpload").json["documents"][1]

C11_FailureRaised ==
    \/ pc # "idle" /\ ~TruthyDict(args.school_data)
    \/ pc # "idle" /\ TruthyDict(args.school_data) /\ ResolveSchool(args.school_data).raised
    \/ renders # <<>> /\ renders[Len(renders)].raised
    \/ C11_JsonStepFailed
    \/ C11_MalformedDescriptor

C11_NoExceptionLeavesVerify ==
    /\ pc \in {"idle", "step2", "step3", "step4", "upload", "step6", "done"}
    /\ C11_FailureRaised =>
        /\ Failed
        /\ DOMAIN result = {"success", "message", "verification_id"}
        /\ result.verification_id = verification_id
        /\ result.message # <<>>

\* the KeyError of a descriptor without uploadUrl came back as a failure dict
C11_Witness ==
    /\ C11_MalformedDescriptor
    /\ Failed
    /\ result.message = KeyErrorMessage("uploadUrl")

\* ------------------------------------------------------------ C12
(* C12: when verify has returned a failure, the last call issued is the one *)
(* whose stage failed (every call before it was answered without failing    *)
(* its stage, and none was issued after it), the message is the one of that *)
(* stage's failure, and the returned dict has no key besides success,       *)
(* message and verification_id.                                             *)

\* the message with which the stage of a call fails on a reply; <<>> when it does not
C12_StageFailure(call, reply) ==
    CASE call.name = "CollectInfo" ->
            IF reply.kind = "raise" THEN <<reply.text>>
            ELSE IF reply.status # 200 THEN Step2FailedMessage(reply)
            ELSE IF reply.kind = "text" THEN AttributeErrorMessage
            ELSE IF Get(reply.json, "currentStep", NoneStr) = "error"
            THEN Step2ErrorMessage(reply.json)
            ELSE <<>>
      [] call.name = "DocUpload" ->
            IF reply.kind = "raise" THEN <<reply.text>>
            ELSE IF reply.kind = "text" THEN AttributeErrorMessage
            ELSE IF Get(reply.json, "documents", <<>>) = <<>>
            THEN <<"Failed to get upload URL">>
            ELSE IF "uploadUrl" \notin DOMAIN reply.json["documents"][1]
            THEN KeyErrorMessage("uploadUrl")
            ELSE <<>>
      [] call.name = "Transfer" ->
            IF reply.kind # "raise" /\ reply.status \in 200..299
            THEN <<>>
            ELSE <<"S3 upload failed">>
      [] OTHER ->
            IF reply.kind = "raise" THEN <<reply.text>>
            ELSE IF reply.kind = "text" THEN AttributeErrorMessage
            ELSE <<>>

\* the message of a failure that precedes the first call
C12_LocalFailure ==
    IF ~TruthyDict(args.school_data)
    THEN <<"school_data is required! User must select a school.">>
    ELSE IF ResolveSchool(args.school_data).raised
    THEN KeyErrorMessage(ResolveSchool(args.school_data).key)
    ELSE <<"Failed to generate image: ", "<render error>">>

C12_FailureIsFirstAndBare ==
    Failed =>
        /\ Len(replies) = Len(calls)
        /\ \A i \in 1..(Len(calls) - 1) : C12_StageFailure(calls[i], replies[i]) = <<>>
        /\ result.message # <<>>
        /\ result.message = IF calls = <<>>
                            THEN C12_LocalFailure
                            ELSE C12_StageFailure(calls[Len(calls)], replies[Len(calls)])
        /\ DOMAIN result = {"success", "message", "verification_id"}

\* a failure at the third stage, after two responses that carried a currentStep
C12_Witness ==
    /\ Failed
    /\ CallNames = <<"CollectInfo", "SsoBypass", "DocUpload">>
    /\ "currentStep" \in DOMAIN replies[1].json
    /\ "currentStep" \in DOMAIN replies[2].json
    /\ result.message = <<"Failed to get upload URL">>

\* ------------------------------------------------------------ C13
(* C13: when verify was called without school_data (None, or an empty       *)
(* dict), whatever identity arguments came with it, it has returned the     *)
(* failure "school_data is required! ...", no remote call was issued and    *)
(* generate_image was not invoked.                                          *)
C13_NoOrganization == pc # "idle" /\ (IsNoneDict(args.school_data) \/ args.school_data = EmptyDict)

C13_NoOrganizationFailsAtOnce ==
    C13_NoOrganization =>
        /\ Failed
        /\ result.message = <<"school_data is required! User must select a school.">>
        /\ calls = <<>>
        /\ renders = <<>>

\* verify(first_name="John", last_name="Doe", email=..., birth_date=..., school_data=None)
C13_Witness ==
    /\ C13_NoOrganization
    /\ IsNoneDict(args.school_data)
    /\ args.first_name = "John" /\ args.last_name = "Doe"
    /\ args.email # <<>> /\ args.birth_date = "2001-02-03"
    /\ Failed

\* ------------------------------------------------------------ C14
(* C14: for every combination of supplied and absent identity arguments,    *)
(* each argument that was supplied is the value sent in the CollectInfo     *)
(* request and the value of the success dict, and each absent one is sent   *)
(* as a generated value.                                                    *)
C14_SuppliedIdentityIsKept ==
    Issued("CollectInfo") =>
        LET body == calls[IndexOf("CollectInfo")].body
        IN  /\ TruthyStr(args.first_name) => body.firstName = args.first_name
            /\ TruthyStr(args.last_name) => body.lastName = args.last_name
            /\ args.email # <<>> => body.email = args.email
            /\ TruthyStr(args.birth_date) => body.birthDate = args.birth_date
            /\ ~TruthyStr(args.first_name) =>
                   body.firstName \in {n.first_name : n \in GeneratedNames}
            /\ ~TruthyStr(args.last_name) =>
                   body.lastName \in {n.last_name : n \in GeneratedNames}
            /\ args.email = <<>> => \E p \in GeneratedLocalParts : body.email[1] = p
            /\ ~TruthyStr(args.birth_date) => body.birthDate \in GeneratedBirthDates
            /\ Succeeded =>
                /\ TruthyStr(args.first_name) => result.student_info.first_name = args.first_name
                /\ TruthyStr(args.last_name) => result.student_info.last_name = args.last_name
                /\ args.email # <<>> => result.student_info.email = args.email
                /\ TruthyStr(args.birth_date) => result.student_info.birth_date = args.birth_date

\* ------------------------------------------------------------ C15
(* C15: the organization of the CollectInfo request (id, idExtended, name)  *)
(* and the domain used with it are those of one source: of school_data      *)
(* itself when from_search is set, else of the catalog record when dict_key *)
(* is given, else of school_data itself; taken from school_data, a missing  *)
(* domain is "university.edu".                                              *)
C15_FromDescriptor(src) ==
    [id |-> src["id"], idExtended |-> src["idExtended"], name |-> src["name"],
     domain |-> IF "domain" \in DOMAIN src THEN src["domain"] ELSE "university.edu"]

C15_Source(src) ==
    IF "from_search" \in DOMAIN src /\ src["from_search"]
    THEN C15_FromDescriptor(src)
    ELSE IF "dict_key" \in DOMAIN src /\ src["dict_key"] # NoneStr
    THEN SCHOOLS[src["dict_key"]]
    ELSE C15_FromDescriptor(src)

\* the source has what the run reads from it
C15_Complete(src) ==
    IF "from_search" \in DOMAIN src /\ src["from_search"]
    THEN {"id", "idExtended", "name"} \subseteq DOMAIN src
    ELSE IF "dict_key" \in DOMAIN src /\ src["dict_key"] # NoneStr
    THEN src["dict_key"] \in DOMAIN SCHOOLS
    ELSE {"id", "idExtended", "name"} \subseteq DOMAIN src

C15_OneSourcePerRun ==
    Issued("CollectInfo") =>
        /\ C15_Complete(args.school_data)
        /\ LET organization == calls[IndexOf("CollectInfo")].body.organization
               source == C15_Source(args.school_data)
           IN  /\ organization = [id |-> source.id, idExtended |-> source.idExtended,
                                  name |-> source.name]
               /\ school = source
               /\ args.email = <<>> => email[3] = Upper(source.domain)

\* a search result that also carries a catalog key: the descriptor itself is sent
C15_Witness ==
    /\ Issued("CollectInfo")
    /\ args.school_data = SearchWithKeySchoolData
    /\ calls[1].body.organization.name = "UCLA"
    /\ school.domain = "ucla.edu"

\* ------------------------------------------------------------ C16
(* C16: the success dict carries the first name, last name, email and birth *)
(* date that were sent in the CollectInfo request, the name of the          *)
(* organization sent there as school_name, the session's verification id,   *)
(* the redirectUrl of the completion response (None when it has none), the  *)
(* completion response itself as status, and the pending-review message.    *)
C16_SuccessEchoesTheRun ==
    Succeeded =>
        LET body == calls[IndexOf("CollectInfo")].body
            final == ReplyTo("CompleteUpload").json
        IN  /\ result.student_info =
                   [first_name |-> body.firstName, last_name |-> body.lastName,
                    email |-> body.email, birth_date |-> body.birthDate,
                    school_name |-> body.organization.name]
            /\ result.student_info.school_name = school["name"]
            /\ result.verification_id = verification_id
            /\ result.redirect_url = IF "redirectUrl" \in DOMAIN final
                                     THEN final["redirectUrl"]
                                     ELSE NoneStr
            /\ result.status = final
            /\ result.pending
            /\ result.message = <<"Document submitted, waiting for review">>

\* a success with a generated identity and a completion response without redirectUrl
C16_Witness ==
    /\ Succeeded
    /\ args.first_name = NoneStr /\ args.email = <<>>
    /\ result.student_info.first_name = "Emma"
    /\ result.redirect_url = NoneStr
    /\ result.status = ("currentStep" :> "pending")

\* ------------------------------------------------------------ C17
(* C17: parse_verification_id returns the value of the verificationId       *)
(* parameter, as written, when that value consists of hexadecimal digits of *)
(* either case, and None when the URL has no such parameter or when its     *)
(* value is not hexadecimal.                                                *)

\* a parameter named verificationId starts at position i
C17_ParameterAt(url, i) ==
    /\ i + Len(KeyPattern) - 1 <= Len(url)
    /\ i = 1 \/ url[i - 1] \in {"?", "&"}
    /\ \A j \in 1..Len(KeyPattern) : Lower(url[i + j - 1]) = Lower(KeyPattern[j])

\* the value of the parameter that starts at i: up to the next "&" or the end
C17_ValueAt(url, i) ==
    LET start == i + Len(KeyPattern)
        stops == {k \in start..Len(url) : url[k] = "&"}
        stop == IF stops = {} THEN Len(url) + 1
                ELSE CHOOSE k \in stops : \A other \in stops : k <= other
    IN  SubSeq(url, start, stop - 1)

C17_IsHexadecimal(value) ==
    /\ value # <<>>
    /\ \A k \in 1..Len(value) :
           value[k] \in Range(HexChars) \cup {"A", "B", "C", "D", "E", "F"}

C17_ParsesHexadecimalValueOnly ==
    parsed.called =>
        LET at == {i \in 1..Len(given_url) : C17_ParameterAt(given_url, i)}
        IN  IF \E i \in at : C17_IsHexadecimal(C17_ValueAt(given_url, i))
            THEN \E i \in at : parsed = SomeId(C17_ValueAt(given_url, i))
            ELSE parsed = NoneId

\* ------------------------------------------------------------ C18
(* C18: whenever verify has returned, with a success, with the failure of   *)
(* any step or after an exception, the session's HTTP client is closed.     *)
C18_ClientClosedOnReturn ==
    Done => http_client = "closed"

\* ------------------------------------------------------------ C19
(* C19: however the runs of two sessions interleave, every request of a run *)
(* that names a verification id names the id of its own session and never   *)
(* the other's, its CollectInfo request carries its own session's           *)
(* fingerprint, the dict it returns carries its own verification id, and    *)
(* config.SCHOOLS stays as it was at process start.                         *)
C19_CarriesOnly(s, other) ==
    /\ \A i \in 1..Len(s.calls) :
        LET call == s.calls[i]
        IN  /\ other.verification_id \notin Range(call.url)
            /\ call.name # "Transfer" => s.verification_id \in Range(call.url)
            /\ call.name = "CollectInfo" =>
                /\ call.body.deviceFingerprintHash = s.device_fingerprint
                /\ call.body.deviceFingerprintHash # other.device_fingerprint
                /\ call.body.metadata.verificationId = s.verification_id
                /\ s.verification_id \in Range(call.body.metadata.refererUrl)
                /\ other.verification_id \notin Range(call.body.metadata.refererUrl)
    /\ s.pc = "done" => s.result.verification_id = s.verification_id

C19_SessionsAreIsolated ==
    ~IsNoneDict(parked) =>
        /\ verification_id # parked.verification_id
        /\ C19_CarriesOnly(SessionState, parked)
        /\ C19_CarriesOnly(parked, SessionState)
        /\ catalog = SCHOOLS

\* both runs are under way: one waits in its completion call, the other in its transfer
C19_Witness ==
    /\ ~IsNoneDict(parked)
    /\ pc = "step6"
    /\ parked.pc = "upload"
    /\ calls[1].body.metadata.verificationId = verification_id
    /\ parked.calls[1].body.metadata.verificationId = parked.verification_id

\* ------------------------------------------------------------ C20
(* C20: the session's device fingerprint is 32 characters, each one of      *)
(* 0-9 and a-f, from the construction of the session on; no step of verify  *)
(* changes it; and the deviceFingerprintHash of the CollectInfo request is  *)
(* that value.                                                              *)
C20_WellFormed ==
    /\ Len(device_fingerprint) = 32
    /\ \A i \in 1..Len(device_fingerprint) :
           device_fingerprint[i] \in {"0", "1", "2", "3", "4", "5", "6", "7", "8", "9",
                                      "a", "b", "c", "d", "e", "f"}
    /\ Issued("CollectInfo") =>
           calls[IndexOf("CollectInfo")].body.deviceFingerprintHash = device_fingerprint

C20_FingerprintIsFixed ==
    /\ []C20_WellFormed
    /\ [][device_fingerprint' = device_fingerprint]_vars

\* a finished run whose first request carried the session's fingerprint
C20_Witness ==
    /\ Succeeded
    /\ device_fingerprint = generate_device_fingerprint(Draws(11))
    /\ calls[1].body.deviceFingerprintHash = device_fingerprint
    /\ Cardinality(Range(device_fingerprint)) = 16

\* ------------------------------------------------------------ C21
(* C21: when verify was called without an email, the email of the           *)
(* CollectInfo request is 8 characters, each an upper-case letter or a      *)
(* digit, then "@", then the domain of the resolved school in upper case;   *)
(* when it was called with an email, that email is sent as given.           *)
C21_UpperAlnum ==
    {"A", "B", "C", "D", "E", "F", "G", "H", "I", "J", "K", "L", "M", "N", "O", "P", "Q", "R",
     "S", "T", "U", "V", "W", "X", "Y", "Z", "0", "1", "2", "3", "4", "5", "6", "7", "8", "9"}

C21_UpperDomain(domain) ==
    CASE domain = "mit.edu" -> "MIT.EDU"
      [] domain = "psu.edu" -> "PSU.EDU"
      [] domain = "ucla.edu" -> "UCLA.EDU"
      [] domain = "university.edu" -> "UNIVERSITY.EDU"
      [] OTHER -> "<unknown>"

C21_EmailGeneratedOnlyWhenAbsent ==
    Issued("CollectInfo") =>
        LET sent == calls[IndexOf("CollectInfo")].body.email
        IN  IF args.email = <<>>
            THEN /\ Len(sent) = 3
                 /\ Len(sent[1]) = 8
                 /\ Range(sent[1]) \subseteq C21_UpperAlnum
                 /\ sent[2] = "@"
                 /\ sent[3] = C21_UpperDomain(school["domain"])
            ELSE sent = args.email

\* a generated address on the default domain of a search result
C21_Witness ==
    /\ Issued("CollectInfo")
    /\ args.email = <<>>
    /\ args.school_data = SearchSchoolData
    /\ calls[1].body.email[1] = <<"A", "2", "B", "4", "C", "6", "D", "8">>
    /\ calls[1].body.email[3] = "UNIVERSITY.EDU"

\* ------------------------------------------------------------ C22
(* C22: the docUpload request declares one file, student_card.png of type   *)
(* image/png, whose fileSize is the number of bytes generate_image returned *)
(* in this run; the PUT sends exactly those bytes, to the uploadUrl of the  *)
(* first element of the documents list of the docUpload response.           *)
C22_Rendered == renders[Len(renders)].img_data

C22_SlotAndTransferUseTheRendering ==
    /\ Issued("DocUpload") =>
        LET files == calls[IndexOf("DocUpload")].body.files
        IN  /\ Len(files) = 1
            /\ files[1] = [fileName |-> "student_card.png", mimeType |-> "image/png",
                           fileSize |-> Len(C22_Rendered)]
    /\ Issued("Transfer") =>
        LET put == calls[IndexOf("Transfer")]
        IN  /\ put.body.content = C22_Rendered
            /\ put.url = <<ReplyTo("DocUpload").json["documents"][1]["uploadUrl"]>>

\* the six-byte rendering went to the first of two upload URLs
C22_Witness ==
    /\ Issued("Transfer")
    /\ Len(C22_Rendered) = 6
    /\ Len(ReplyTo("DocUpload").json["documents"]) = 2
    /\ calls[IndexOf("Transfer")].url = <<"https://s3.example/upload-2">>
    /\ calls[IndexOf("DocUpload")].body.files[1].fileSize = 6

\* ------------------------------------------------------------ C23
(* C23: generate_image is invoked at most once in a run, and exactly once,  *)
(* before the CollectInfo request is issued, in every run that has resolved *)
(* its school; it is never invoked once a request has been issued; when it  *)
(* raised, verify has returned a failure and no request was issued.         *)
C23_RenderFailed == renders # <<>> /\ renders[Len(renders)].raised

C23_RenderState ==
    /\ Len(renders) <= 1
    /\ Issued("CollectInfo") => Len(renders) = 1 /\ ~renders[1].raised
    /\ C23_RenderFailed =>
        /\ Failed
        /\ calls = <<>>
        /\ result.message = <<"Failed to generate image: ", "<render error>">>

C23_RenderedOnceBeforeFirstCall ==
    /\ []C23_RenderState
    /\ [][renders' # renders => calls = <<>>]_vars

(* C23 as stated: every run, also one that fails before the rendering,      *)
(* invokes generate_image exactly once.                                     *)
C23_Original ==
    /\ Done => Len(renders) = 1
    /\ Issued("CollectInfo") => Len(renders) = 1 /\ ~renders[1].raised
    /\ C23_RenderFailed => Failed /\ calls = <<>>

\* generate_image raised for a run whose school was resolved
C23_Witness ==
    /\ C23_RenderFailed
    /\ Len(renders) = 1
    /\ args.school_data = PresetSchoolData
    /\ Failed

\* ------------------------------------------------------------ C24
(* C24: whatever the HTTP status of the docUpload response, a documents     *)
(* list whose first element has an uploadUrl leads to the PUT, and a        *)
(* response with a status other than 200 and no documents makes verify      *)
(* return the failure "Failed to get upload URL", not a message with the    *)
(* status and the body.                                                     *)
C24_SlotStatusIsNeverInspected ==
    Responded("DocUpload") =>
        LET reply == ReplyTo("DocUpload")
            documents == Get(reply.json, "documents", <<>>)
        IN  /\ (documents # <<>> /\ "uploadUrl" \in DOMAIN documents[1]) =>
                   /\ Issued("Transfer")
                   /\ CallNames[IndexOf("DocUpload") + 1] = "Transfer"
            /\ (reply.status # 200 /\ documents = <<>>) =>
                   /\ Failed
                   /\ result.message = <<"Failed to get upload URL">>

\* ------------------------------------------------------------ C25
(* C25: when the CollectInfo response has HTTP status 200 and carries no    *)
(* currentStep, current_step keeps its initial value, no SSO-bypass request *)
(* is issued and the docUpload request is the second request of the run.    *)
C25_NoCurrentStep ==
    /\ Responded("CollectInfo")
    /\ ReplyTo("CollectInfo").status = 200
    /\ "currentStep" \notin DOMAIN ReplyTo("CollectInfo").json

C25_MissingStepGoesToUploadSlot ==
    C25_NoCurrentStep =>
        /\ current_step = "initial"
        /\ ~Issued("SsoBypass")
        /\ Len(calls) >= 2
        /\ CallNames[2] = "DocUpload"

\* ------------------------------------------------------------ C26
(* C26: in the conversation, a verification run is under way only while    *)
(* user_data holds a verification id that parse_verification_id accepted    *)
(* and a selected school, and the run is for that id and that school; a URL *)
(* that parse_verification_id rejects leaves the conversation in            *)
(* WAITING_URL and user_data as it was.                                     *)
C26_Accepted(id) ==
    \E text \in Texts :
        LET found == parse_verification_id(Strip(text))
        IN  ~found.none /\ found.value = id

C26_RunHasStoredInputs ==
    /\ "verification_id" \in DOMAIN user_data => C26_Accepted(user_data["verification_id"])
    /\ running =>
        /\ {"verification_id", "selected_school"} \subseteq DOMAIN user_data
        /\ verification_id = user_data["verification_id"]
        /\ pc # "idle" => args.school_data = user_data["selected_school"]
    /\ (pc # "idle" \/ calls # <<>>) => C26_Accepted(verification_id)

C26_RejectedUrlChangesNothing ==
    (/\ handled'.handler = "receive_url"
     /\ parse_verification_id(Strip(handled'.text)).none)
    => /\ conv' = "WAITING_URL"
       /\ user_data' = user_data
       /\ ~running'

C26_RunOnlyWithAcceptedIdAndSchool ==
    /\ []C26_RunHasStoredInputs
    /\ [][C26_RejectedUrlChangesNothing]_vars

C26_Witness ==
    /\ running
    /\ Issued("CollectInfo")
    /\ user_data["selected_school"].from_search
    /\ verification_id = <<"a", "B", "1">>

\* ------------------------------------------------------------ C27
(* C27: whenever select_search_result has handled a press, the index of the *)
(* pressed button is a position of the search results stored in user_data,  *)
(* and the school stored there is the one the button displayed.              *)
C27_SelectionHandled == handled.handler = "select_search_result"

C27_IndexDenotesDisplayedSchool ==
    C27_SelectionHandled =>
        /\ "search_results" \in DOMAIN user_data
        /\ handled.index + 1 <= Len(user_data["search_results"])
        /\ user_data["search_results"][handled.index + 1]
              = handled.keyboard.schools[handled.index + 1]

\* ------------------------------------------------------------ C28
(* C28: search_schools_api moves the conversation from                      *)
(* WAITING_SCHOOL_SEARCH to SELECT_FROM_SEARCH only when the search call    *)
(* returned HTTP 200 with at least one result of type UNIVERSITY and        *)
(* country US, and then the stored results are at most 10, all of that type *)
(* and country; a query shorter than 3 characters issues no search call;    *)
(* and a short query, a non-200 status, an empty filtered result or an      *)
(* exception each leave the conversation in WAITING_SCHOOL_SEARCH with the  *)
(* stored results unchanged.                                                *)
C28_SearchHandled ==
    conv = "WAITING_SCHOOL_SEARCH" /\ handled'.handler = "search_schools_api"
C28_Short == Len(Strip(handled'.text)) < 3
C28_StoredResults(data) == [k \in DOMAIN data \cap {"search_results"} |-> data[k]]
C28_Matching == SelectSeq(handled'.reply.results, IsUsUniversity)

C28_MovesOnlyOnResults ==
    conv' = "SELECT_FROM_SEARCH" =>
        /\ handled'.searched
        /\ handled'.reply.kind = "list"
        /\ handled'.reply.status = 200
        /\ C28_Matching # <<>>
        /\ "search_results" \in DOMAIN user_data'
        /\ Len(user_data'["search_results"]) <= SearchLimit
        /\ \A i \in 1..Len(user_data'["search_results"]) :
              IsUsUniversity(user_data'["search_results"][i])

C28_StaysOnFailure ==
    (\/ C28_Short
     \/ handled'.reply.status # 200
     \/ C28_Matching = <<>>
     \/ handled'.caught)
    => /\ conv' = "WAITING_SCHOOL_SEARCH"
       /\ C28_StoredResults(user_data') = C28_StoredResults(user_data)

C28_SearchStep ==
    C28_SearchHandled =>
        /\ C28_Short => ~handled'.searched
        /\ C28_MovesOnlyOnResults
        /\ C28_StaysOnFailure

C28_SearchMovesOnlyOnResults == [][C28_SearchStep]_vars

\* ------------------------------------------------------------ C29
(* C29: each school selection, preset or search result, starts exactly one  *)
(* verification run, and the conversation ends when that run returns,       *)
(* whatever its outcome; /cancel ends the conversation without starting a   *)
(* run; and a selection is handled only in a conversation that /start       *)
(* opened and an accepted URL carried past WAITING_URL.                     *)
C29_Selections == {"select_preset_school", "select_search_result"}
C29_Closed == {"END", "WAITING_URL"}

C29_SelectionStartsOneRun ==
    (~running /\ handled'.handler \in C29_Selections) =>
        /\ conv \notin C29_Closed
        /\ ~handled'.raised
        /\ handled'.started = 1
        /\ running'
        /\ pc' = "idle"
        /\ calls' = <<>>

C29_RunEndsConversation ==
    running =>
        /\ pc' = "idle" => pc = "idle"
        /\ running' => conv' = conv
        /\ ~running' => pc = "done" /\ conv' = "END"

C29_CancelStartsNoRun ==
    handled'.handler = "cancel" =>
        /\ conv' = "END"
        /\ ~running'
        /\ UNCHANGED run

C29_OpenedByStartAndUrl ==
    /\ (conv = "END" /\ conv' # "END") =>
          handled'.handler = "start" /\ conv' = "WAITING_URL"
    /\ (conv = "WAITING_URL" /\ conv' \notin C29_Closed) =>
          /\ handled'.handler = "receive_url"
          /\ ~parse_verification_id(Strip(handled'.text)).none

C29_Step ==
    /\ C29_SelectionStartsOneRun
    /\ C29_RunEndsConversation
    /\ C29_CancelStartsNoRun
    /\ C29_OpenedByStartAndUrl

C29_SelectionRunsOnceThenEnds == [][C29_Step]_vars

====
